---- MODULE Spec2Model ----
(***************************************************************************)
(* The UUID token provider of keystone (keystone/token/providers/uuid.py): *)
(* the token-data assembler V3TokenDataHelper and the Provider that        *)
(* issues, stores, revokes and validates tokens.                           *)
(*                                                                         *)
(* Python values are modelled as follows.  A dict is a TLA+ function whose *)
(* DOMAIN is the set of its keys, so that  'k' in d  is  k \in DOMAIN d.   *)
(* None is None for a value that is otherwise a string and NoneRef for a   *)
(* value that is otherwise a dict.  A function that may raise returns a    *)
(* context  [td, calls, exc, ret]:  the token_data dict it works on, the   *)
(* collaborator calls made so far, the exception raised (NoExc if none)    *)
(* and its return value.                                                   *)
(***************************************************************************)
EXTENDS Integers, Sequences, FiniteSets, TLC

VARIABLES
    conf,       \* CONF: trust.enabled, and whether the catalog backend has a v3 catalog
    identity,   \* identity directory: users' enabled flags and role grants
    store,      \* token store: token id -> stored record, NoneRef when absent
    req,        \* the kwargs of each issue_token call
    call,       \* each issue_token call: its position, locals, result
    clock,      \* timeutils.utcnow()
    last        \* the operation performed by the last step, with its result

vars == <<conf, identity, store, req, call, clock, last>>

\* ------------------------------------------------------------------ bounds
NumCalls == 2
NumTokenIds == 2

\* ------------------------------------------------------------ python values
None == "None"
NoneRef == [none |-> TRUE]
EmptyDict == [k \in {} |-> NoneRef]

Has(d, k) == k \in DOMAIN d
Get(d, k, default) == IF k \in DOMAIN d THEN d[k] ELSE default
Put(d, k, v) == [f \in DOMAIN d \cup {k} |-> IF f = k THEN v ELSE d[f]]
\* dict.setdefault(k, v)
SetDefault(d, k, v) == IF k \in DOMAIN d THEN d ELSE Put(d, k, v)
\* truth value of an id, a dict or a list
TruthyId(x) == x # None /\ x # ""
TruthyRef(x) == x # NoneRef /\ DOMAIN x # {}

\* ---------------------------------------------------------------- exceptions
NoExc == [type |-> "none", msg |-> <<>>]
Exc(type, msg) == [type |-> type, msg |-> msg]
Ctx(td) == [td |-> td, calls |-> <<>>, exc |-> NoExc, ret |-> NoneRef]
Failed(c) == c.exc # NoExc
Raise(c, e) == [c EXCEPT !.exc = e, !.ret = NoneRef]
Return(c, v) == [c EXCEPT !.ret = v]
SetItem(c, k, v) == [c EXCEPT !.td = Put(@, k, v)]
\* a call of a collaborator: logged, then it returns val or raises e
Collab(c, entry, found, e, val) ==
    IF Failed(c) THEN c
    ELSE [c EXCEPT !.calls = Append(@, entry),
                   !.exc = IF found THEN NoExc ELSE e,
                   !.ret = IF found THEN val ELSE NoneRef]

\* --------------------------------------------------------- identity directory
Users == {"u1", "u2"}
Projects == {"p1", "p2"}
Domains == {"d1"}
Roles == {"r1", "r2", "r3"}
DEFAULT_DOMAIN_ID == "d1"

UserName == [u1 |-> "alice", u2 |-> "bob"]
ProjectName == [p1 |-> "alpha", p2 |-> "beta"]
DomainName == [d1 |-> "Default"]
RoleName == [r1 |-> "admin", r2 |-> "member", r3 |-> "auditor"]

get_user(c, user_id) ==
    Collab(c, <<"identity_api.get_user", user_id>>, user_id \in Users,
           Exc("UserNotFound", <<user_id>>),
           [id |-> user_id, name |-> UserName[user_id],
            domain_id |-> DEFAULT_DOMAIN_ID,
            enabled |-> identity.enabled[user_id],
            password |-> "hashed"])

get_project(c, project_id) ==
    Collab(c, <<"identity_api.get_project", project_id>>, project_id \in Projects,
           Exc("ProjectNotFound", <<project_id>>),
           [id |-> project_id, name |-> ProjectName[project_id],
            domain_id |-> DEFAULT_DOMAIN_ID, enabled |-> TRUE])

get_domain(c, domain_id) ==
    Collab(c, <<"identity_api.get_domain", domain_id>>, domain_id \in Domains,
           Exc("DomainNotFound", <<domain_id>>),
           [id |-> domain_id, name |-> DomainName[domain_id], enabled |-> TRUE])

get_role(c, role_id) ==
    Collab(c, <<"identity_api.get_role", role_id>>, role_id \in Roles,
           Exc("RoleNotFound", <<role_id>>),
           [id |-> role_id, name |-> RoleName[role_id], description |-> "a role"])

get_roles_for_user_and_domain(c, user_id, domain_id) ==
    Collab(c, <<"identity_api.get_roles_for_user_and_domain", user_id, domain_id>>,
           user_id \in Users /\ domain_id \in Domains,
           IF user_id \in Users THEN Exc("DomainNotFound", <<domain_id>>)
                                ELSE Exc("UserNotFound", <<user_id>>),
           identity.grants[<<user_id, domain_id>>])

get_roles_for_user_and_project(c, user_id, project_id) ==
    Collab(c, <<"identity_api.get_roles_for_user_and_project", user_id, project_id>>,
           user_id \in Users /\ project_id \in Projects,
           IF user_id \in Users THEN Exc("ProjectNotFound", <<project_id>>)
                                ELSE Exc("UserNotFound", <<user_id>>),
           identity.grants[<<user_id, project_id>>])

\* ------------------------------------------------------------ catalog directory
get_v3_catalog(c, user_id, project_id) ==
    Collab(c, <<"catalog_api.get_v3_catalog", user_id, project_id>>,
           conf.catalog_v3,
           Exc("NotImplemented", <<>>),
           [RegionOne |-> [identity |-> [user_id |-> user_id,
                                         tenant_id |-> project_id]]])

\* ------------------------------------------------------------------ timeutils
\* a naive datetime is [dt |-> n]; an ISO-8601 string is [iso |-> n, subsecond |-> b]
isotime(at, subsecond) == [iso |-> at.dt, subsecond |-> subsecond]
parse_isotime(s) == [dt |-> s.iso, tz |-> "UTC"]
normalize_time(t) == [dt |-> t.dt]
isinstance_basestring(x) == Has(x, "iso")
utcnow == [dt |-> clock]
default_expire_time == [dt |-> clock + 1]

\* ------------------------------------------------------------ V3TokenDataHelper

_get_filtered_domain(c, domain_id) ==
    LET c1 == get_domain(c, domain_id) IN
    IF Failed(c1) THEN c1
    ELSE Return(c1, [id |-> c1.ret.id, name |-> c1.ret.name])

_get_filtered_project(c, project_id) ==
    LET c1 == get_project(c, project_id) IN
    IF Failed(c1) THEN c1
    ELSE LET project_ref == c1.ret
             c2 == _get_filtered_domain(c1, project_ref.domain_id)
         IN  IF Failed(c2) THEN c2
             ELSE Return(c2, [id |-> project_ref.id,
                              name |-> project_ref.name,
                              domain |-> c2.ret])

_populate_scope(c, domain_id, project_id) ==
    IF Failed(c) THEN c
    ELSE IF Has(c.td, "domain") \/ Has(c.td, "project") THEN c
    ELSE LET c1 == IF TruthyId(domain_id)
                   THEN LET d == _get_filtered_domain(c, domain_id)
                        IN  IF Failed(d) THEN d ELSE SetItem(d, "domain", d.ret)
                   ELSE c
         IN  IF Failed(c1) \/ ~TruthyId(project_id) THEN c1
             ELSE LET p == _get_filtered_project(c1, project_id)
                  IN  IF Failed(p) THEN p ELSE SetItem(p, "project", p.ret)

\* [self.identity_api.get_role(role_id) for role_id in roles]
RECURSIVE GetRoleRefs(_, _, _)
GetRoleRefs(c, role_ids, acc) ==
    IF Failed(c) THEN c
    ELSE IF role_ids = <<>> THEN Return(c, acc)
    ELSE LET c1 == get_role(c, Head(role_ids)) IN
         IF Failed(c1) THEN c1
         ELSE GetRoleRefs(c1, Tail(role_ids), Append(acc, c1.ret))

_get_roles_for_user(c, user_id, domain_id, project_id) ==
    LET c0 == Return(c, <<>>)
        c1 == IF TruthyId(domain_id)
              THEN get_roles_for_user_and_domain(c0, user_id, domain_id)
              ELSE c0
        c2 == IF Failed(c1) \/ ~TruthyId(project_id) THEN c1
              ELSE get_roles_for_user_and_project(c1, user_id, project_id)
    IN  IF Failed(c2) THEN c2 ELSE GetRoleRefs(c2, c2.ret, <<>>)

\* a projection that always shows the caller
DisplayedUser_Caller(trust, user_ref, trustor_user_ref) == user_ref

\* if trust['impersonation']: user_ref = trustor_user_ref
DisplayedUser(trust, user_ref, trustor_user_ref) ==
    IF trust.impersonation THEN trustor_user_ref ELSE user_ref

TrustBlock(trust) ==
    [id |-> trust.id,
     trustor_user |-> [id |-> trust.trustor_user_id],
     trustee_user |-> [id |-> trust.trustee_user_id],
     impersonation |-> trust.impersonation]

_populate_user(c, user_id, domain_id, project_id, trust) ==
    IF Failed(c) THEN c
    ELSE IF Has(c.td, "user") THEN c
    ELSE
    LET c1 == get_user(c, user_id) IN
    IF Failed(c1) THEN c1
    ELSE
    LET caller_ref == c1.ret
        under_trust == conf.trust_enabled /\ TruthyRef(trust)
                          /\ ~Has(c.td, "OS-TRUST:trust")
        c2 == IF under_trust THEN get_user(c1, trust.trustor_user_id) ELSE c1
    IN
    IF Failed(c2) THEN c2
    ELSE IF under_trust /\ ~c2.ret.enabled
    THEN Raise(c2, Exc("Forbidden", <<"Trustor is disabled.">>))
    ELSE
    LET user_ref == IF under_trust THEN DisplayedUser(trust, caller_ref, c2.ret)
                    ELSE caller_ref
        c3 == IF under_trust THEN SetItem(c2, "OS-TRUST:trust", TrustBlock(trust))
              ELSE c2
        c4 == _get_filtered_domain(c3, user_ref.domain_id)
    IN
    IF Failed(c4) THEN c4
    ELSE SetItem(c4, "user", [id |-> user_ref.id,
                              name |-> user_ref.name,
                              domain |-> c4.ret])

\* match_roles = [x for x in roles if x['id'] == trust_role['id']]
MatchRoles(roles, role_id) == SelectSeq(roles, LAMBDA x: x.id = role_id)

\* a loop that skips the declared roles the trustor does not hold
RECURSIVE TrustFilter_Lenient(_, _, _)
TrustFilter_Lenient(roles, trust_roles, filtered) ==
    IF trust_roles = <<>> THEN [ok |-> TRUE, roles |-> filtered]
    ELSE LET match_roles == SelectSeq(roles, LAMBDA x: x.id = Head(trust_roles).id) IN
         TrustFilter_Lenient(roles, Tail(trust_roles),
             IF match_roles # <<>> THEN Append(filtered, match_roles[1]) ELSE filtered)

\* the loop over trust['roles']: the matched roles, or not ok at the first
\* declared role the trustor does not hold
RECURSIVE TrustFilter(_, _, _)
TrustFilter(roles, trust_roles, filtered) ==
    IF trust_roles = <<>> THEN [ok |-> TRUE, roles |-> filtered]
    ELSE LET match_roles == MatchRoles(roles, Head(trust_roles).id) IN
         IF match_roles # <<>>
         THEN TrustFilter(roles, Tail(trust_roles), Append(filtered, match_roles[1]))
         ELSE [ok |-> FALSE, roles |-> <<>>]

\* a loop that builds the list back to front
PlainFilter_Reversed(roles) ==
    [i \in 1..Len(roles) |-> [id |-> roles[Len(roles) + 1 - i].id,
                              name |-> roles[Len(roles) + 1 - i].name]]

\* for role in roles: filtered_roles.append({'id': role['id'], 'name': role['name']})
PlainFilter(roles) == [i \in 1..Len(roles) |-> [id |-> roles[i].id, name |-> roles[i].name]]

\* user has no project or domain roles, therefore access denied
AccessDenied(user_id, token_project_id, token_domain_id) ==
    IF TruthyId(token_project_id)
    THEN Exc("Unauthorized",
             <<"User", user_id, "have no access to project", token_project_id>>)
    ELSE Exc("Unauthorized",
             <<"User", user_id, "have no access to domain", token_domain_id>>)

\* a check that lets an empty role list through
CheckRoles_NoDenial(c, filtered_roles, user_id, token_project_id, token_domain_id) ==
    SetItem(c, "roles", filtered_roles)

\* a check that denies an empty role list on a project only
CheckRoles_ProjectOnly(c, filtered_roles, user_id, token_project_id, token_domain_id) ==
    IF filtered_roles = <<>> /\ TruthyId(token_project_id)
    THEN Raise(c, AccessDenied(user_id, token_project_id, token_domain_id))
    ELSE SetItem(c, "roles", filtered_roles)

\* if not filtered_roles: raise exception.Unauthorized(msg)
CheckRoles(c, filtered_roles, user_id, token_project_id, token_domain_id) ==
    IF filtered_roles = <<>>
    THEN Raise(c, AccessDenied(user_id, token_project_id, token_domain_id))
    ELSE SetItem(c, "roles", filtered_roles)

_populate_roles(c, user_id, domain_id, project_id, trust) ==
    IF Failed(c) THEN c
    ELSE IF Has(c.td, "roles") THEN c
    ELSE
    LET under_trust == conf.trust_enabled /\ TruthyRef(trust)
        token_user_id == IF under_trust THEN trust.trustor_user_id ELSE user_id
        token_project_id == IF under_trust THEN trust.project_id ELSE project_id
        token_domain_id == IF under_trust THEN None ELSE domain_id
    IN
    IF ~(TruthyId(token_domain_id) \/ TruthyId(token_project_id)) THEN c
    ELSE
    LET c1 == _get_roles_for_user(c, token_user_id, token_domain_id, token_project_id) IN
    IF Failed(c1) THEN c1
    ELSE
    LET roles == c1.ret
        tf == IF under_trust THEN TrustFilter(roles, trust.roles, <<>>)
              ELSE [ok |-> TRUE, roles |-> PlainFilter(roles)]
        filtered_roles == tf.roles
    IN
    IF ~tf.ok
    THEN Raise(c1, Exc("Forbidden", <<"Trustee have no delegated roles.">>))
    ELSE CheckRoles(c1, filtered_roles, user_id, token_project_id, token_domain_id)

\* a catalog step that lets the backend's NotImplemented through
_populate_service_catalog_Surfaced(c, user_id, domain_id, project_id, trust) ==
    IF Failed(c) THEN c
    ELSE IF Has(c.td, "catalog") THEN c
    ELSE
    LET catalog_user_id == IF conf.trust_enabled /\ TruthyRef(trust)
                           THEN trust.trustor_user_id ELSE user_id
    IN
    IF ~(TruthyId(project_id) \/ TruthyId(domain_id)) THEN c
    ELSE LET c1 == get_v3_catalog(c, catalog_user_id, project_id) IN
         IF Failed(c1) THEN c1
         ELSE SetItem(c1, "catalog", c1.ret)

\* a catalog looked up for the caller
_populate_service_catalog_Caller(c, user_id, domain_id, project_id, trust) ==
    IF Failed(c) THEN c
    ELSE IF Has(c.td, "catalog") THEN c
    ELSE
    IF ~(TruthyId(project_id) \/ TruthyId(domain_id)) THEN c
    ELSE LET c1 == get_v3_catalog(c, user_id, project_id) IN
         IF c1.exc.type = "NotImplemented"
         THEN SetItem([c1 EXCEPT !.exc = NoExc], "catalog", EmptyDict)
         ELSE IF Failed(c1) THEN c1
         ELSE SetItem(c1, "catalog", c1.ret)

_populate_service_catalog(c, user_id, domain_id, project_id, trust) ==
    IF Failed(c) THEN c
    ELSE IF Has(c.td, "catalog") THEN c
    ELSE
    LET catalog_user_id == IF conf.trust_enabled /\ TruthyRef(trust)
                           THEN trust.trustor_user_id ELSE user_id
    IN
    IF ~(TruthyId(project_id) \/ TruthyId(domain_id)) THEN c
    ELSE LET c1 == get_v3_catalog(c, catalog_user_id, project_id) IN
         IF c1.exc.type = "NotImplemented"
         THEN SetItem([c1 EXCEPT !.exc = NoExc], "catalog", EmptyDict)
         ELSE IF Failed(c1) THEN c1
         ELSE SetItem(c1, "catalog", c1.ret)

_populate_token_dates(c, expires) ==
    IF Failed(c) THEN c
    ELSE
    LET e1 == IF expires = NoneRef THEN default_expire_time ELSE expires
        e2 == IF ~isinstance_basestring(e1) THEN isotime(e1, TRUE) ELSE e1
    IN  SetItem(SetItem(c, "expires_at", e2), "issued_at", isotime(utcnow, TRUE))

\* for x in ('roles', 'user', 'catalog', 'project', 'domain'): if x in token: ...
CarriedKeys == {"roles", "user", "catalog", "project", "domain"}

\* return {'token': token_data}
Wrapped(c) == IF Failed(c) THEN c ELSE Return(c, [token |-> c.td])

get_token_data(user_id, method_names, extras, domain_id, project_id, expires, trust, token) ==
    LET keys == IF TruthyRef(token) THEN CarriedKeys \cap DOMAIN token ELSE {}
        token_data == [k \in {"methods", "extras"} \cup keys |->
                          IF k = "methods" THEN method_names
                          ELSE IF k = "extras" THEN extras
                          ELSE token[k]]
        c0 == Ctx(token_data)
    IN
    IF conf.trust_enabled /\ TruthyRef(trust) /\ user_id # trust.trustee_user_id
    THEN Raise(c0, Exc("Forbidden", <<"User is not a trustee.">>))
    ELSE
    LET c1 == _populate_scope(c0, domain_id, project_id)
        c2 == _populate_user(c1, user_id, domain_id, project_id, trust)
        c3 == _populate_roles(c2, user_id, domain_id, project_id, trust)
        c4 == _populate_service_catalog(c3, user_id, domain_id, project_id, trust)
        c5 == _populate_token_dates(c4, expires)
    IN  Wrapped(c5)

\* ------------------------------------------------------------------ trust store
TrustIds == {"tA", "tB", "tC", "tN"}
TrustRef(trust_id) ==
    CASE trust_id = "tA" ->
           [id |-> "tA", trustor_user_id |-> "u1", trustee_user_id |-> "u2",
            project_id |-> "p1", impersonation |-> TRUE,
            roles |-> <<[id |-> "r1"]>>]
      [] trust_id = "tB" ->
           [id |-> "tB", trustor_user_id |-> "u1", trustee_user_id |-> "u2",
            project_id |-> "p1", impersonation |-> FALSE,
            roles |-> <<[id |-> "r1"], [id |-> "r2"]>>]
      [] trust_id = "tC" ->
           [id |-> "tC", trustor_user_id |-> "u1", trustee_user_id |-> "u2",
            project_id |-> "p1", impersonation |-> FALSE,
            roles |-> <<[id |-> "r1"], [id |-> "r3"]>>]
      [] OTHER ->
           [id |-> "tN", trustor_user_id |-> "u1", trustee_user_id |-> "u2",
            project_id |-> None, impersonation |-> FALSE,
            roles |-> <<>>]

get_trust(c, trust_id) ==
    Collab(c, <<"trust_api.get_trust", trust_id>>, trust_id \in TrustIds,
           Exc("TrustNotFound", <<trust_id>>), TrustRef(trust_id))

\* ------------------------------------------------------------------ token store
IdNames == <<"t1", "t2", "t3", "t4">>
TokenIds == {IdNames[i] : i \in 1..NumTokenIds}

get_token(c, token_id) ==
    Collab(c, <<"token_api.get_token", token_id>>, store[token_id] # NoneRef,
           Exc("TokenNotFound", <<token_id>>), store[token_id])

\* create is atomic per key: it refuses a key that holds a record, and may fail
\* for a reason of its own (written = FALSE); a failed create writes nothing
create_token(c, token_id, data, written) ==
    Collab(c, <<"token_api.create_token", token_id>>,
           store[token_id] = NoneRef /\ written,
           IF store[token_id] # NoneRef THEN Exc("Conflict", <<token_id>>)
                                        ELSE Exc("StoreUnavailable", <<>>),
           data)

delete_token(c, token_id) ==
    Collab(c, <<"token_api.delete_token", token_id>>, store[token_id] # NoneRef,
           Exc("TokenNotFound", <<token_id>>), NoneRef)

\* ---------------------------------------------------------------------- Provider
V2 == "v2.0"
V3 == "v3.0"

UnsupportedTokenVersionException == Exc("UnsupportedTokenVersionException", <<>>)

\* what an operation gave its caller
Returned(v) == [tag |-> "return", val |-> v]
Raised(e) == [tag |-> "raise", exc |-> e]
ResultOf(c) == IF Failed(c) THEN Raised(c.exc) ELSE Returned(c.ret)
NoResult == [tag |-> "none"]

\* an issue_token call that has not started
IdleCall == [pc |-> "idle", token_id |-> None, token_data |-> NoneRef,
             trust |-> NoneRef, exc_info |-> NoExc, calls |-> <<>>,
             result |-> NoResult, revoked |-> FALSE]

\* the trust in effect and the payload c assembled under it, after the calls made
\* to find the trust
Assembled(trust, calls, c) ==
    [trust |-> trust, calls |-> calls \o c.calls, exc |-> c.exc, ret |-> c.ret]

\* lines 230-251 of _issue_v3_token: the trust stashed in metadata_ref, the
\* assembly of the payload
IssueAssemble(kwargs) ==
    LET user_id == Get(kwargs, "user_id", None)
        method_names == Get(kwargs, "method_names", <<>>)
        expires_at == Get(kwargs, "expires_at", NoneRef)
        project_id == Get(kwargs, "project_id", None)
        domain_id == Get(kwargs, "domain_id", None)
        auth_context == Get(kwargs, "auth_context", NoneRef)
        trust0 == Get(kwargs, "trust", NoneRef)
        metadata_ref == Get(kwargs, "metadata_ref", NoneRef)
        c1 == IF conf.trust_enabled /\ ~TruthyRef(trust0)
                   /\ TruthyRef(metadata_ref) /\ Has(metadata_ref, "trust_id")
              THEN get_trust(Ctx(EmptyDict), metadata_ref.trust_id)
              ELSE Return(Ctx(EmptyDict), trust0)
        trust == c1.ret
    IN
    IF Failed(c1)
    THEN [trust |-> NoneRef, calls |-> c1.calls, exc |-> c1.exc, ret |-> NoneRef]
    ELSE
    Assembled(trust, c1.calls,
              get_token_data(user_id, method_names,
                  IF TruthyRef(auth_context) THEN Get(auth_context, "extras", NoneRef)
                                             ELSE NoneRef,
                  domain_id, project_id, expires_at, trust, NoneRef))

\* a record that expires at the default time whatever the payload says
IssueRecord_DefaultExpiry(kwargs, token_id, token_data, trust) ==
    LET token == token_data.token
        expiry0 == token.expires_at
        expiry == IF isinstance_basestring(expiry0)
                  THEN normalize_time(parse_isotime(expiry0)) ELSE expiry0
        metadata0 == Get(kwargs, "metadata_ref", EmptyDict)
        metadata1 == IF Has(token, "project") /\ Has(token, "roles")
                     THEN [roles |-> [i \in 1..Len(token.roles) |-> token.roles[i].id]]
                     ELSE metadata0
        metadata2 == IF TruthyRef(trust) /\ metadata1 # NoneRef
                     THEN SetDefault(SetDefault(metadata1, "trust_id", trust.id),
                                     "trustee_user_id", trust.trustee_user_id)
                     ELSE metadata1
        c0 == Ctx(EmptyDict)
    IN
    IF Has(token, "project") /\ ~Has(token, "roles")
    THEN Raise(c0, Exc("KeyError", <<"roles">>))
    ELSE IF TruthyRef(trust) /\ metadata1 = NoneRef
    THEN Raise(c0, Exc("AttributeError", <<"setdefault">>))
    ELSE IF ~Has(token, "user")
    THEN Raise(c0, Exc("KeyError", <<"user">>))
    ELSE Return(c0, [key |-> token_id,
                     id |-> token_id,
                     expires |-> default_expire_time,
                     user |-> token.user,
                     tenant |-> Get(token, "project", NoneRef),
                     metadata |-> metadata2,
                     token_data |-> token_data,
                     trust_id |-> IF TruthyRef(trust) THEN trust.id ELSE None])

\* lines 253-276 of _issue_v3_token: the record derived from the payload
IssueRecord(kwargs, token_id, token_data, trust) ==
    LET token == token_data.token
        expiry0 == token.expires_at
        expiry == IF isinstance_basestring(expiry0)
                  THEN normalize_time(parse_isotime(expiry0)) ELSE expiry0
        metadata0 == Get(kwargs, "metadata_ref", EmptyDict)
        metadata1 == IF Has(token, "project") /\ Has(token, "roles")
                     THEN [roles |-> [i \in 1..Len(token.roles) |-> token.roles[i].id]]
                     ELSE metadata0
        metadata2 == IF TruthyRef(trust) /\ metadata1 # NoneRef
                     THEN SetDefault(SetDefault(metadata1, "trust_id", trust.id),
                                     "trustee_user_id", trust.trustee_user_id)
                     ELSE metadata1
        c0 == Ctx(EmptyDict)
    IN
    IF Has(token, "project") /\ ~Has(token, "roles")
    THEN Raise(c0, Exc("KeyError", <<"roles">>))
    ELSE IF TruthyRef(trust) /\ metadata1 = NoneRef
    THEN Raise(c0, Exc("AttributeError", <<"setdefault">>))
    ELSE IF ~Has(token, "user")
    THEN Raise(c0, Exc("KeyError", <<"user">>))
    ELSE Return(c0, [key |-> token_id,
                     id |-> token_id,
                     expires |-> expiry,
                     user |-> token.user,
                     tenant |-> Get(token, "project", NoneRef),
                     metadata |-> metadata2,
                     token_data |-> token_data,
                     trust_id |-> IF TruthyRef(trust) THEN trust.id ELSE None])

\* issue_token, up to the generation of the token id (lines 289-292, 230-251)
IssueBegin(p) ==
    /\ call[p].pc = "idle"
    /\ \E c \in {IssueAssemble(req[p].kwargs)} :
       \/ /\ req[p].version # V3
          /\ call' = [call EXCEPT ![p].pc = "done",
                         ![p].result = Raised(UnsupportedTokenVersionException)]
       \/ /\ req[p].version = V3
          /\ Failed(c)
          /\ call' = [call EXCEPT ![p].pc = "done", ![p].calls = c.calls,
                                  ![p].result = Raised(c.exc)]
       \/ /\ req[p].version = V3
          /\ ~Failed(c)
          /\ \E token_id \in TokenIds :
                call' = [call EXCEPT ![p].pc = "create", ![p].calls = c.calls,
                                    ![p].token_id = token_id,
                                    ![p].token_data = c.ret,
                                    ![p].trust = c.trust]
    /\ last' = [op |-> "issue_token", args |-> [call |-> p], result |-> call'[p].result,
                calls |-> call'[p].calls]
    /\ UNCHANGED <<conf, identity, store, req, clock>>

\* a write that is tried once more when it fails
WriteRecord_Retry(c, token_id, data, written) ==
    IF Failed(c) \/ ~Failed(create_token(c, token_id, data, written))
    THEN create_token(c, token_id, data, written)
    ELSE create_token([create_token(c, token_id, data, written) EXCEPT !.exc = NoExc],
                      token_id, data, written)

\* a write that is made again
WriteRecord_Twice(c, token_id, data, written) ==
    create_token(create_token(c, token_id, data, written), token_id, data, written)

\* self.token_api.create_token(token_id, data)
WriteRecord(c, token_id, data, written) == create_token(c, token_id, data, written)

\* the try block of _issue_v3_token (lines 252-279): derive the record, write it
IssueCreate(p) ==
    /\ call[p].pc = "create"
    /\ \E written \in BOOLEAN :
         LET cl == call[p]
             c1 == IssueRecord(req[p].kwargs, cl.token_id, cl.token_data, cl.trust)
             c2 == WriteRecord(c1, cl.token_id, c1.ret, written)
         IN  /\ store' = IF Failed(c2) THEN store
                         ELSE [store EXCEPT ![cl.token_id] = c1.ret]
             /\ call' = IF Failed(c2)
                        THEN [call EXCEPT ![p].pc = "recheck",
                                          ![p].exc_info = c2.exc,
                                          ![p].calls = @ \o c2.calls]
                        ELSE [call EXCEPT ![p].pc = "done",
                                          ![p].calls = @ \o c2.calls,
                                          ![p].result = Returned(
                                              [token_id |-> cl.token_id,
                                               token_data |-> cl.token_data])]
    /\ last' = [op |-> "issue_token", args |-> [call |-> p], result |-> call'[p].result,
                calls |-> call'[p].calls]
    /\ UNCHANGED <<conf, identity, req, clock>>

\* an except block that re-raises whatever the look-up finds
RecheckResult_AlwaysRaise(cl, c) == Raised(cl.exc_info)

\* an except block that lets the look-up's own failure out
RecheckResult_NotFound(cl, c) ==
    IF c.exc.type = "TokenNotFound" THEN Raised(c.exc)
    ELSE Returned([token_id |-> cl.token_id, token_data |-> cl.token_data])

\* what the except block gives the caller, from the look-up c of the record
RecheckResult(cl, c) ==
    IF c.exc.type = "TokenNotFound" THEN Raised(cl.exc_info)
    ELSE Returned([token_id |-> cl.token_id, token_data |-> cl.token_data])

\* the except block of _issue_v3_token (lines 280-287): look for the record
IssueRecheck(p) ==
    /\ call[p].pc = "recheck"
    /\ LET cl == call[p]
           c1 == get_token(Ctx(EmptyDict), cl.token_id)
       IN  call' = [call EXCEPT ![p].pc = "done",
                       ![p].calls = @ \o c1.calls,
                       ![p].result = RecheckResult(cl, c1)]
    /\ last' = [op |-> "issue_token", args |-> [call |-> p], result |-> call'[p].result,
                calls |-> call'[p].calls]
    /\ UNCHANGED <<conf, identity, store, req, clock>>

_verify_token(token_id, belongs_to) ==
    LET c1 == get_token(Ctx(EmptyDict), token_id) IN
    IF Failed(c1) THEN c1
    ELSE
    LET token_ref == c1.ret IN
    IF ~TruthyRef(token_ref)
    THEN Raise(c1, Exc("AssertionError", <<>>))
    ELSE IF TruthyId(belongs_to) /\ ~Has(token_ref, "tenant")
    THEN Raise(c1, Exc("KeyError", <<"tenant">>))
    ELSE IF TruthyId(belongs_to) /\ token_ref.tenant = NoneRef
    THEN Raise(c1, Exc("TypeError", <<"tenant">>))
    ELSE IF TruthyId(belongs_to) /\ token_ref.tenant.id # belongs_to
    THEN Raise(c1, Exc("AssertionError", <<>>))
    ELSE Return(c1, token_ref)

\* a handler that lets TokenNotFound through
TranslateTokenNotFound_Bare(c) == c

\* except exception.TokenNotFound as e: raise exception.Unauthorized(e)
TranslateTokenNotFound(c) ==
    IF c.exc.type = "TokenNotFound"
    THEN Raise(c, Exc("Unauthorized", <<c.exc.type>> \o c.exc.msg))
    ELSE c

\* a revoke that hides the absence of the record as validation does
revoke_token_Translated(token_id) ==
    TranslateTokenNotFound(delete_token(Ctx(EmptyDict), token_id))

revoke_token(token_id) == delete_token(Ctx(EmptyDict), token_id)

\* a reconstruction that forgets the record's tenant
_validate_v3_token_Unscoped(token_id) ==
    LET c1 == _verify_token(token_id, None) IN
    IF Failed(c1) THEN c1
    ELSE
    LET token_ref == c1.ret
        token_data == Get(token_ref, "token_data", NoneRef)
    IN
    IF TruthyRef(token_data) /\ Has(token_data, "token")
    THEN Return(c1, token_data)
    ELSE
    LET c2 == get_token_data(token_ref.user.id, <<"password", "token">>, EmptyDict,
                             None, None, token_ref.expires, NoneRef, NoneRef)
    IN  [c2 EXCEPT !.calls = c1.calls \o @]

\* a validation that looks the token's user up again and refuses a disabled one
_validate_v3_token_Recheck(token_id) ==
    LET c1 == _verify_token(token_id, None) IN
    IF Failed(c1) THEN c1
    ELSE LET c2 == get_user(c1, c1.ret.user.id) IN
         IF Failed(c2) THEN c2
         ELSE IF ~c2.ret.enabled THEN Raise(c2, Exc("Forbidden", <<"User is disabled.">>))
         ELSE Return(c2, Get(c1.ret, "token_data", NoneRef))

_validate_v3_token(token_id) ==
    LET c1 == _verify_token(token_id, None) IN
    IF Failed(c1) THEN c1
    ELSE
    LET token_ref == c1.ret
        token_data == Get(token_ref, "token_data", NoneRef)
    IN
    IF TruthyRef(token_data) /\ Has(token_data, "token")
    THEN Return(c1, token_data)
    ELSE
    LET project_ref == Get(token_ref, "tenant", NoneRef)
        project_id == IF TruthyRef(project_ref) THEN project_ref.id ELSE None
        c2 == get_token_data(token_ref.user.id, <<"password", "token">>, EmptyDict,
                             None, project_id, token_ref.expires, NoneRef, NoneRef)
    IN  [c2 EXCEPT !.calls = c1.calls \o @]

\* a validation that looks the record up before it looks at the version
validate_token_LookupFirst(token_id, belongs_to, version) ==
    TranslateTokenNotFound(
        LET c1 == _validate_v3_token(token_id) IN
        IF Failed(c1) \/ version = V3 THEN c1
        ELSE Raise(c1, UnsupportedTokenVersionException))

validate_token(token_id, belongs_to, version) ==
    TranslateTokenNotFound(
        IF version = V3 THEN _validate_v3_token(token_id)
        ELSE Raise(Ctx(EmptyDict), UnsupportedTokenVersionException))

\* a check that serves v2.0 as well
check_token_BothVersions(token_id, belongs_to, version) ==
    TranslateTokenNotFound(
        IF version \in {V2, V3}
        THEN LET c1 == _verify_token(token_id, None)
             IN  IF Failed(c1) THEN c1 ELSE Return(c1, NoneRef)
        ELSE Raise(Ctx(EmptyDict), UnsupportedTokenVersionException))

check_token(token_id, belongs_to, version) ==
    TranslateTokenNotFound(
        IF version = V3
        THEN LET c1 == _verify_token(token_id, None)
             IN  IF Failed(c1) THEN c1 ELSE Return(c1, NoneRef)
        ELSE Raise(Ctx(EmptyDict), UnsupportedTokenVersionException))

\* ------------------------------------------------------------------- operations
Observed(op, args, c) == [op |-> op, args |-> args, result |-> ResultOf(c), calls |-> c.calls]

ValidateToken(token_id, belongs_to, version) ==
    /\ last' = Observed("validate_token",
                   [token_id |-> token_id, belongs_to |-> belongs_to, version |-> version],
                   validate_token(token_id, belongs_to, version))
    /\ UNCHANGED <<conf, identity, store, req, call, clock>>

CheckToken(token_id, belongs_to, version) ==
    /\ last' = Observed("check_token",
                   [token_id |-> token_id, belongs_to |-> belongs_to, version |-> version],
                   check_token(token_id, belongs_to, version))
    /\ UNCHANGED <<conf, identity, store, req, call, clock>>

VerifyToken(token_id, belongs_to) ==
    /\ last' = Observed("_verify_token",
                   [token_id |-> token_id, belongs_to |-> belongs_to],
                   _verify_token(token_id, belongs_to))
    /\ UNCHANGED <<conf, identity, store, req, call, clock>>

RevokeToken(token_id) ==
    LET c == revoke_token(token_id) IN
    /\ store' = IF Failed(c) THEN store ELSE [store EXCEPT ![token_id] = NoneRef]
    /\ call' = [p \in DOMAIN call |->
                  IF call[p].pc = "done" /\ call[p].token_id = token_id
                  THEN [call[p] EXCEPT !.revoked = TRUE] ELSE call[p]]
    /\ last' = Observed("revoke_token", [token_id |-> token_id], c)
    /\ UNCHANGED <<conf, identity, req, clock>>

\* get_token_data called on the arguments of call p, with a prior token
GetTokenData(p, token) ==
    LET kwargs == req[p].kwargs IN
    /\ last' = Observed("get_token_data",
                   [user_id |-> kwargs.user_id, domain_id |-> kwargs.domain_id,
                    project_id |-> kwargs.project_id, trust |-> kwargs.trust,
                    token |-> token],
                   get_token_data(kwargs.user_id, kwargs.method_names, NoneRef,
                                  kwargs.domain_id, kwargs.project_id,
                                  kwargs.expires_at, kwargs.trust, token))
    /\ UNCHANGED <<conf, identity, store, req, call, clock>>

\* the identity directory changes under the provider: a user is disabled or
\* enabled, a role assignment on a project is withdrawn
UpdateUser(user_id, enabled) ==
    /\ identity.enabled[user_id] # enabled
    /\ identity' = [identity EXCEPT !.enabled[user_id] = enabled]
    /\ last' = [op |-> "update_user", args |-> [user_id |-> user_id],
                result |-> NoResult, calls |-> <<>>]
    /\ UNCHANGED <<conf, store, req, call, clock>>

DeleteGrant(user_id, project_id, role_id) ==
    /\ \E i \in 1..Len(identity.grants[<<user_id, project_id>>]) :
           identity.grants[<<user_id, project_id>>][i] = role_id
    /\ identity' = [identity EXCEPT !.grants[<<user_id, project_id>>] =
                                       SelectSeq(@, LAMBDA r : r # role_id)]
    /\ last' = [op |-> "delete_grant", args |-> [user_id |-> user_id],
                result |-> NoResult, calls |-> <<>>]
    /\ UNCHANGED <<conf, store, req, call, clock>>

\* ------------------------------------------------------------------ the inputs
Kw(user_id, project_id, domain_id, trust) ==
    [user_id |-> user_id, method_names |-> <<"password">>,
     project_id |-> project_id, domain_id |-> domain_id, trust |-> trust,
     expires_at |-> NoneRef, auth_context |-> NoneRef]

V3Request(kwargs) == [version |-> V3, kwargs |-> kwargs]

TrustArgs == {NoneRef} \cup {TrustRef(t) : t \in TrustIds}
MetadataRefs == {NoneRef, EmptyDict, [trust_id |-> "tA"], [trust_id |-> "tX"],
                 [is_admin |-> "1"]}

CoreRequests ==
    {V3Request(Kw(u, p, d, t)) :
        u \in {"u1", "u2", "ux"}, p \in {None, "p1", "p2", "px"},
        d \in {None, "d1"}, t \in TrustArgs}

MetadataRequests ==
    {V3Request(Put(Kw("u2", p, None, t), "metadata_ref", m)) :
        p \in {None, "p1"}, t \in {NoneRef, TrustRef("tA")}, m \in MetadataRefs}

OtherRequests ==
    { V3Request(Kw("u1", None, "dx", NoneRef)),
      V3Request([Kw("u1", "p1", None, NoneRef) EXCEPT !.expires_at = [dt |-> 3]]),
      V3Request([Kw("u1", "p1", None, NoneRef) EXCEPT
                    !.expires_at = [iso |-> 3, subsecond |-> FALSE]]),
      V3Request([Kw("u1", "p1", None, NoneRef) EXCEPT
                    !.auth_context = [extras |-> [audit |-> "x"]]]),
      [version |-> V2, kwargs |-> Kw("u1", "p1", None, NoneRef)],
      [version |-> "v1.0", kwargs |-> Kw("u1", "p1", None, NoneRef)] }

WideRequests == CoreRequests \cup MetadataRequests \cup OtherRequests

\* the requests of concurrent calls: the first one, and what runs beside it
\* (the same request again, another principal's, an unknown version)
NarrowRequests(p) ==
    IF p = 2
    THEN { V3Request(Kw("u1", "p1", None, NoneRef)),
           V3Request(Kw("u2", "p2", None, NoneRef)),
           [version |-> V2, kwargs |-> Kw("u1", "p1", None, NoneRef)],
           [version |-> "v1.0", kwargs |-> Kw("u1", "p1", None, NoneRef)] }
    ELSE { V3Request(Kw("u1", "p1", None, NoneRef)) }

\* requests whose tokens outlive a change of the directory: a plain one, and
\* two made by the trustee of a trust
StaleRequests ==
    { V3Request(Kw("u1", "p1", None, NoneRef)),
      V3Request(Kw("u2", None, None, TrustRef("tB"))),
      V3Request(Kw("u2", "p1", None, TrustRef("tA"))) }

PriorTokens ==
    { NoneRef,
      [user |-> [id |-> "u2", name |-> "bob",
                 domain |-> [id |-> "d1", name |-> "Default"]]],
      [roles |-> <<>>],
      [project |-> [id |-> "p2", name |-> "beta",
                    domain |-> [id |-> "d1", name |-> "Default"]]],
      [catalog |-> EmptyDict] }

\* records written by the V2 API: no token_data, or one without a 'token' entry
LegacyRecord(token_id, user_id, project_id, token_data) ==
    LET ref == [id |-> token_id, expires |-> [dt |-> 2],
                user |-> [id |-> user_id],
                tenant |-> IF project_id = None THEN NoneRef ELSE [id |-> project_id],
                metadata |-> [roles |-> <<"r1">>]]
    IN  IF token_data = NoneRef THEN ref ELSE Put(ref, "token_data", token_data)

EmptyStore == [t \in TokenIds |-> NoneRef]
\* a record written by the V2 API for a token issued under trust tA, with
\* impersonation: the trustor u1 on the trust's project, the delegated role
LegacyTrustRecord(token_id) ==
    [LegacyRecord(token_id, "u1", "p1", NoneRef) EXCEPT
        !.metadata = [roles |-> <<"r1">>, trust_id |-> "tA", trustee_user_id |-> "u2"]]
\* the stores a directory change is played against: none, or a legacy trust record
StaleStores == {EmptyStore, [EmptyStore EXCEPT !["t2"] = LegacyTrustRecord("t2")]}
InitStores ==
    { EmptyStore,
      [EmptyStore EXCEPT !["t1"] = LegacyRecord("t1", "u1", "p1", NoneRef)],
      [EmptyStore EXCEPT !["t1"] = LegacyRecord("t1", "u2", "px", [access |-> EmptyDict])],
      [EmptyStore EXCEPT !["t1"] = LegacyRecord("t1", "u2", "p1", [access |-> EmptyDict])],
      [EmptyStore EXCEPT !["t1"] = LegacyRecord("t1", "u1", None, NoneRef)] }

Confs == { [trust_enabled |-> TRUE, catalog_v3 |-> TRUE],
           [trust_enabled |-> FALSE, catalog_v3 |-> TRUE],
           [trust_enabled |-> TRUE, catalog_v3 |-> FALSE] }

InitIdentity ==
    [enabled |-> [u \in Users |-> TRUE],
     grants |-> [k \in Users \X (Projects \cup Domains) |->
                   CASE k = <<"u1", "p1">> -> <<"r2", "r1">>
                     [] k = <<"u1", "d1">> -> <<"r2">>
                     [] k = <<"u2", "p2">> -> <<"r2">>
                     [] OTHER -> <<>>]]

\* the same directory with the trustor of every trust disabled
InitIdentities ==
    {InitIdentity, [InitIdentity EXCEPT !.enabled["u1"] = FALSE]}

InitCommon ==
    /\ clock = 0
    /\ call = [p \in DOMAIN req |-> IdleCall]
    /\ last = [op |-> "init", args |-> EmptyDict, result |-> NoResult, calls |-> <<>>]

\* concurrent issue_token calls on a few requests, with revocations and validations
Init ==
    /\ conf = [trust_enabled |-> TRUE, catalog_v3 |-> TRUE]
    /\ req \in {r \in [1..NumCalls -> NarrowRequests(1) \cup NarrowRequests(2)] :
                    \A p \in 1..NumCalls : r[p] \in NarrowRequests(p)}
    /\ store = EmptyStore
    /\ identity = InitIdentity
    /\ InitCommon

\* one issue_token call on any request, under any configuration
InitWide ==
    /\ conf \in Confs
    /\ req \in [{1} -> WideRequests]
    /\ store \in InitStores
    /\ identity \in InitIdentities
    /\ InitCommon

ValidateArgs ==
    {<<"t1", None, V3>>, <<"t2", None, V3>>, <<"t1", "p2", V3>>,
     <<"t1", None, V2>>, <<"t1", None, "v1.0">>}
CheckArgs ==
    {<<"t1", None, V3>>, <<"t1", "p2", V3>>, <<"t1", None, V2>>, <<"t1", None, "v1.0">>}
VerifyArgs ==
    {<<"t1", None>>, <<"t1", "p1">>, <<"t1", "p2">>}

Issue ==
    \/ \E p \in DOMAIN req : IssueBegin(p)
    \/ \E p \in DOMAIN req : IssueCreate(p)
    \/ \E p \in DOMAIN req : IssueRecheck(p)

Next ==
    \/ Issue
    \/ \E t \in TokenIds : RevokeToken(t)
    \/ \E a \in ValidateArgs : ValidateToken(a[1], a[2], a[3])
    \/ \E a \in CheckArgs : CheckToken(a[1], a[2], a[3])
    \/ \E a \in VerifyArgs : VerifyToken(a[1], a[2])

NextWide ==
    \/ Issue
    \/ \E p \in DOMAIN req, token \in PriorTokens : GetTokenData(p, token)
    \/ \E t \in TokenIds : ValidateToken(t, None, V3)
    \/ \E t \in TokenIds : CheckToken(t, None, V3)
    \/ \E t \in TokenIds : VerifyToken(t, None)
    \/ \E t \in TokenIds : RevokeToken(t)

\* one issue_token call, then the directory changes while the token is validated
InitStale ==
    /\ conf = [trust_enabled |-> TRUE, catalog_v3 |-> TRUE]
    /\ req \in [{1} -> StaleRequests]
    /\ store \in StaleStores
    /\ identity = InitIdentity
    /\ InitCommon

NextStale ==
    \/ Issue
    \/ \E u \in Users, enabled \in BOOLEAN : UpdateUser(u, enabled)
    \/ \E u \in Users, p \in Projects, r \in Roles : DeleteGrant(u, p, r)
    \/ \E t \in TokenIds : ValidateToken(t, None, V3)
    \/ \E t \in TokenIds : RevokeToken(t)

Spec == Init /\ [][Next]_vars
SpecStale == InitStale /\ [][NextStale]_vars
SpecWide == InitWide /\ [][NextWide]_vars

\* ================================================================== properties

\* the trust an issue_token call names: the one passed, else the one stashed
\* in metadata_ref; it is in effect when CONF.trust.enabled
SuppliedTrustId(kwargs) ==
    IF TruthyRef(kwargs.trust) THEN kwargs.trust.id
    ELSE IF Has(kwargs, "metadata_ref") /\ TruthyRef(kwargs.metadata_ref)
            /\ Has(kwargs.metadata_ref, "trust_id")
    THEN kwargs.metadata_ref.trust_id
    ELSE None
ActiveTrust(kwargs) == conf.trust_enabled /\ SuppliedTrustId(kwargs) # None
UnderTrust(kwargs) == ActiveTrust(kwargs) /\ SuppliedTrustId(kwargs) \in TrustIds

\* the scope a request asks for, and the principal's role assignments on it
RequestedScope(kwargs) ==
    IF TruthyId(kwargs.project_id) THEN kwargs.project_id ELSE kwargs.domain_id
KnownRequest(kwargs) ==
    /\ kwargs.user_id \in Users
    /\ kwargs.project_id \in Projects \cup {None}
    /\ kwargs.domain_id \in Domains \cup {None}
Assignments(user_id, scope) == identity.grants[<<user_id, scope>>]
ZeroRoles(kwargs) ==
    /\ KnownRequest(kwargs)
    /\ RequestedScope(kwargs) # None
    /\ Assignments(kwargs.user_id, RequestedScope(kwargs)) = <<>>
ScopeDenial(kwargs) ==
    Exc("Unauthorized",
        <<"User", kwargs.user_id,
          IF TruthyId(kwargs.project_id) THEN "have no access to project"
                                         ELSE "have no access to domain",
          RequestedScope(kwargs)>>)
NoCreate(calls) == \A i \in 1..Len(calls) : calls[i][1] # "token_api.create_token"
Succeeded(p) == call[p].pc = "done" /\ call[p].result.tag = "return"

\* C1: whenever an issue_token call has returned (token_id, payload), by a
\* successful write or through the existence recheck, and no revoke_token of
\* that id has followed, validate_token(token_id) returns exactly that payload.
C1_RoundTrip ==
    \A p \in DOMAIN call :
        ( /\ call[p].pc = "done"
          /\ call[p].result.tag = "return"
          /\ ~call[p].revoked
          /\ last.op = "validate_token"
          /\ last.args.version = V3
          /\ last.args.token_id = call[p].result.val.token_id )
        => last.result = Returned(call[p].result.val.token_data)

\* C2: once revoke_token(id) has completed the record of id is gone, and as
\* long as no issuance has stored a record under id, validate_token(id) raises
\* Unauthorized; validate_token never raises TokenNotFound to its caller.
C2_RevokedIsUnauthorized ==
    /\ last.op = "revoke_token" => store[last.args.token_id] = NoneRef
    /\ last.op = "validate_token" =>
          /\ ~(last.result.tag = "raise" /\ last.result.exc.type = "TokenNotFound")
          /\ (last.args.version = V3 /\ store[last.args.token_id] = NoneRef)
                => last.result = Raised(Exc("Unauthorized",
                                            <<"TokenNotFound", last.args.token_id>>))

\* an issued token is revoked, then validated
C2_Witness ==
    \E p \in DOMAIN call :
        /\ call[p].pc = "done"
        /\ call[p].result.tag = "return"
        /\ call[p].revoked
        /\ last.op = "validate_token"
        /\ last.args.version = V3
        /\ last.args.token_id = call[p].token_id
        /\ store[call[p].token_id] = NoneRef
        /\ last.result.tag = "raise"
        /\ last.result.exc.type = "Unauthorized"

\* C3 as stated: an issue_token call of a principal that has no role on the
\* requested scope S is denied with Unauthorized naming S, and writes nothing.
C3_ZeroRolesDenied ==
    \A p \in DOMAIN req :
        (req[p].version = V3 /\ ZeroRoles(req[p].kwargs) /\ call[p].pc = "done")
        => /\ call[p].result = Raised(ScopeDenial(req[p].kwargs))
           /\ NoCreate(call[p].calls)

\* C3 amended: when no trust is in effect, a v3 issue_token call of a known
\* principal that has no role on the requested scope S (the project, or the
\* domain when no project is requested) ends at once with Unauthorized naming
\* S, and the token store is the same after the call as before it.
C3_ZeroRolesDeniedWithoutTrust ==
    [][\A p \in DOMAIN req :
         ( /\ call[p].pc = "idle"
           /\ call'[p].pc # "idle"
           /\ req[p].version = V3
           /\ ~ActiveTrust(req[p].kwargs)
           /\ ZeroRoles(req[p].kwargs) )
         => /\ call'[p].pc = "done"
            /\ call'[p].result = Raised(ScopeDenial(req[p].kwargs))
            /\ NoCreate(call'[p].calls)
            /\ store' = store]_vars

\* a principal without roles on the requested project has been denied
C3_Witness ==
    \E p \in DOMAIN req :
        /\ req[p].version = V3
        /\ ~ActiveTrust(req[p].kwargs)
        /\ ZeroRoles(req[p].kwargs)
        /\ TruthyId(req[p].kwargs.project_id)
        /\ call[p].pc = "done"
        /\ call[p].result = Raised(ScopeDenial(req[p].kwargs))

ExpectedRoles(user_id, project_id) ==
    LET g == Assignments(user_id, project_id)
    IN  [i \in 1..Len(g) |-> [id |-> g[i], name |-> RoleName[g[i]]]]
\* C4: without a trust, a v3 issue_token call of a principal that has roles on
\* project P, scoped to P, assembles a payload whose roles are the principal's
\* role assignments on P, in their order, each reduced to {id, name}.
C4_ProjectRolesExact ==
    \A p \in DOMAIN req :
        ( /\ req[p].version = V3
          /\ ~ActiveTrust(req[p].kwargs)
          /\ KnownRequest(req[p].kwargs)
          /\ req[p].kwargs.project_id \in Projects
          /\ Assignments(req[p].kwargs.user_id, req[p].kwargs.project_id) # <<>>
          /\ call[p].pc # "idle" )
        => /\ call[p].token_data # NoneRef
           /\ Has(call[p].token_data.token, "roles")
           /\ call[p].token_data.token.roles =
                 ExpectedRoles(req[p].kwargs.user_id, req[p].kwargs.project_id)
           /\ Succeeded(p) => call[p].result.val.token_data = call[p].token_data

\* a token scoped to a project on which the principal has two roles is issued
C4_Witness ==
    \E p \in DOMAIN req :
        /\ req[p].version = V3
        /\ ~ActiveTrust(req[p].kwargs)
        /\ KnownRequest(req[p].kwargs)
        /\ req[p].kwargs.project_id \in Projects
        /\ Len(Assignments(req[p].kwargs.user_id, req[p].kwargs.project_id)) = 2
        /\ Succeeded(p)
        /\ Len(call[p].result.val.token_data.token.roles) = 2

DeclaredIds(trust) == [i \in 1..Len(trust.roles) |-> trust.roles[i].id]
TrustorHolds(trust, role_id) ==
    /\ trust.project_id \in Projects
    /\ \E i \in 1..Len(Assignments(trust.trustor_user_id, trust.project_id)) :
          Assignments(trust.trustor_user_id, trust.project_id)[i] = role_id
AllDelegatedHeld(trust) ==
    \A i \in 1..Len(trust.roles) : TrustorHolds(trust, trust.roles[i].id)
PayloadRoleIds(token) ==
    IF Has(token, "roles") THEN [i \in 1..Len(token.roles) |-> token.roles[i].id]
    ELSE <<>>
ByTrustee(kwargs, trust) ==
    /\ KnownRequest(kwargs)
    /\ kwargs.user_id = trust.trustee_user_id
    /\ identity.enabled[trust.trustor_user_id]
NoDelegatedRoles == Exc("Forbidden", <<"Trustee have no delegated roles.">>)

\* C5 as stated: under a trust in effect, issue_token succeeds only if the
\* trustor holds every declared role on the trust's project, the payload's
\* roles are then the declared roles, and if a declared role is missing the
\* call fails with Forbidden 'Trustee have no delegated roles.' and writes
\* nothing.
C5_DelegatedRolesAsStated ==
    \A p \in DOMAIN req :
        (req[p].version = V3 /\ UnderTrust(req[p].kwargs)) =>
            LET trust == TrustRef(SuppliedTrustId(req[p].kwargs)) IN
            /\ Succeeded(p) =>
                  /\ AllDelegatedHeld(trust)
                  /\ PayloadRoleIds(call[p].result.val.token_data.token)
                        = DeclaredIds(trust)
            /\ (~AllDelegatedHeld(trust) /\ call[p].pc # "idle") =>
                  /\ call[p].pc = "done"
                  /\ call[p].result = Raised(NoDelegatedRoles)
                  /\ NoCreate(call[p].calls)

\* C5 amended: under a trust in effect, issue_token succeeds only if the
\* trustor holds every role the trust declares on the trust's project, and
\* then the payload's roles are the declared roles; if a declared role is
\* missing the call fails without writing, and it fails with Forbidden
\* 'Trustee have no delegated roles.' when the caller is the trustee, the
\* trustor is enabled and the ids of the request are known to the directory.
C5_DelegatedRoles ==
    \A p \in DOMAIN req :
        (req[p].version = V3 /\ UnderTrust(req[p].kwargs)) =>
            LET trust == TrustRef(SuppliedTrustId(req[p].kwargs)) IN
            /\ Succeeded(p) =>
                  /\ AllDelegatedHeld(trust)
                  /\ PayloadRoleIds(call[p].result.val.token_data.token)
                        = DeclaredIds(trust)
            /\ (~AllDelegatedHeld(trust) /\ call[p].pc # "idle") =>
                  /\ call[p].pc = "done"
                  /\ call[p].result.tag = "raise"
                  /\ NoCreate(call[p].calls)
                  /\ ByTrustee(req[p].kwargs, trust)
                        => call[p].result = Raised(NoDelegatedRoles)

\* the trustee of a trust that declares a role the trustor lacks is refused
C5_Witness ==
    \E p \in DOMAIN req :
        /\ req[p].version = V3
        /\ UnderTrust(req[p].kwargs)
        /\ ~AllDelegatedHeld(TrustRef(SuppliedTrustId(req[p].kwargs)))
        /\ call[p].pc = "done"
        /\ call[p].result = Raised(NoDelegatedRoles)

\* the filtered projection of a user of the directory
FilteredUser(user_id) ==
    [id |-> user_id, name |-> UserName[user_id],
     domain |-> [id |-> DEFAULT_DOMAIN_ID, name |-> DomainName[DEFAULT_DOMAIN_ID]]]
NotATrustee == Exc("Forbidden", <<"User is not a trustee.">>)
\* what a successful get_token_data under a trust says about the identities
TrustIdentity(trust, user_id, token) ==
    /\ Has(token, "user")
    /\ token.user = FilteredUser(IF trust.impersonation THEN trust.trustor_user_id
                                                        ELSE user_id)
    /\ Has(token, "OS-TRUST:trust")
    /\ token["OS-TRUST:trust"].trustor_user.id = trust.trustor_user_id
    /\ token["OS-TRUST:trust"].trustee_user.id = trust.trustee_user_id
    /\ token["OS-TRUST:trust"].impersonation = trust.impersonation
GetTokenDataUnderTrust ==
    last.op = "get_token_data" /\ conf.trust_enabled /\ TruthyRef(last.args.trust)

C7_CollisionTolerated ==
    [][/\ \A p \in DOMAIN call :
            ( /\ call[p].pc = "recheck"
              /\ call'[p].pc = "done"
              /\ store[call[p].token_id] # NoneRef )
            => /\ call'[p].result = Returned([token_id |-> call[p].token_id,
                                               token_data |-> call[p].token_data])
               /\ store' = store
       /\ \A t \in TokenIds :
            store[t] # NoneRef => store'[t] \in {store[t], NoneRef}]_vars

\* two calls drew the same id, the second write was refused, both returned
\* the id and the record is there
C7_Witness ==
    \E p, q \in DOMAIN call :
        /\ p # q
        /\ Succeeded(p) /\ Succeeded(q)
        /\ call[p].result.val.token_id = call[q].result.val.token_id
        /\ call[p].exc_info = NoExc
        /\ call[q].exc_info = Exc("Conflict", <<call[q].token_id>>)
        /\ store[call[p].token_id] # NoneRef

\* the number of writes an issue_token call has attempted
Creates(calls) ==
    Len(SelectSeq(calls, LAMBDA entry : entry[1] = "token_api.create_token"))

\* C8: an issue_token call whose write failed and that finds no record under
\* its id when it rechecks raises the failure of the write, which is not the
\* recheck's TokenNotFound, and has attempted one write only; the store is
\* left as it was.
C8_WriteFailurePropagates ==
    [][\A p \in DOMAIN call :
         ( /\ call[p].pc = "recheck"
           /\ call'[p].pc = "done"
           /\ store[call[p].token_id] = NoneRef )
         => /\ call'[p].result = Raised(call[p].exc_info)
            /\ call[p].exc_info.type \in {"Conflict", "StoreUnavailable"}
            /\ Creates(call'[p].calls) = 1
            /\ store' = store]_vars

\* a write was refused for a colliding record that was revoked before the
\* recheck: the caller got the conflict
C8_Witness ==
    \E p \in DOMAIN call :
        /\ call[p].pc = "done"
        /\ call[p].result = Raised(Exc("Conflict", <<call[p].token_id>>))
        /\ store[call[p].token_id] = NoneRef

Recognized == {V2, V3}
\* C9: issue_token, validate_token and check_token called with a version that
\* is neither v2.0 nor v3.0 raise UnsupportedTokenVersionException without a
\* call to the token store, the directory, the catalog or the trust store, and
\* leave the store as it was.
C9_UnsupportedVersion ==
    [][/\ \A p \in DOMAIN call :
            ( /\ call[p].pc = "idle"
              /\ call'[p].pc # "idle"
              /\ req[p].version \notin Recognized )
            => /\ call'[p].pc = "done"
               /\ call'[p].result = Raised(UnsupportedTokenVersionException)
               /\ call'[p].calls = <<>>
               /\ store' = store
       /\ ( /\ last'.op \in {"validate_token", "check_token"}
            /\ last'.args.version \notin Recognized )
            => /\ last'.result = Raised(UnsupportedTokenVersionException)
               /\ last'.calls = <<>>
               /\ store' = store]_vars

\* an issue_token call with an unknown version has been refused, and then a
\* validation with an unknown version
C9_Witness ==
    /\ \E p \in DOMAIN call :
          /\ req[p].version \notin Recognized
          /\ call[p].result = Raised(UnsupportedTokenVersionException)
    /\ last.op = "validate_token"
    /\ last.args.version \notin Recognized
    /\ last.result = Raised(UnsupportedTokenVersionException)

HiddenNotFound(token_id) == Exc("Unauthorized", <<"TokenNotFound", token_id>>)
IsHiddenNotFound(result) ==
    /\ result.tag = "raise"
    /\ result.exc.type = "Unauthorized"
    /\ Len(result.exc.msg) > 0
    /\ result.exc.msg[1] \in {"TokenNotFound", "UserNotFound", "ProjectNotFound",
                              "DomainNotFound", "RoleNotFound", "TrustNotFound"}
\* the first unknown id the assembly meets when no trust is in effect
FirstUnknown(user_id, domain_id, project_id) ==
    IF domain_id \notin Domains \cup {None} THEN Exc("DomainNotFound", <<domain_id>>)
    ELSE IF project_id \notin Projects \cup {None}
    THEN Exc("ProjectNotFound", <<project_id>>)
    ELSE IF user_id \notin Users THEN Exc("UserNotFound", <<user_id>>)
    ELSE NoExc
IsLegacy(token_ref) ==
    ~Has(token_ref, "token_data") \/ ~Has(token_ref.token_data, "token")
TenantId(token_ref) ==
    IF Has(token_ref, "tenant") /\ TruthyRef(token_ref.tenant) THEN token_ref.tenant.id
    ELSE None
\* C10: the store's TokenNotFound comes out of validate_token and check_token
\* as Unauthorized and out of no other operation: revoke_token and
\* _verify_token of an id without a record raise TokenNotFound itself, and an
\* unknown principal, project, domain or trust met by issue_token or by the
\* reconstruction of a legacy record comes out as its own not-found signal.
C10_NotFoundTranslation ==
    [][/\ ( /\ last'.op \in {"validate_token", "check_token"}
            /\ last'.args.version = V3
            /\ store[last'.args.token_id] = NoneRef )
            => last'.result = Raised(HiddenNotFound(last'.args.token_id))
       /\ ( /\ last'.op \in {"revoke_token", "_verify_token"}
            /\ store[last'.args.token_id] = NoneRef )
            => /\ last'.result = Raised(Exc("TokenNotFound", <<last'.args.token_id>>))
               /\ store' = store
       /\ IsHiddenNotFound(last'.result)
            => /\ last'.op \in {"validate_token", "check_token"}
               /\ last'.result.exc.msg[1] = "TokenNotFound"
       /\ \A p \in DOMAIN call :
            (call[p].pc = "idle" /\ call'[p].pc # "idle" /\ req[p].version = V3) =>
               LET kwargs == req[p].kwargs IN
               /\ (ActiveTrust(kwargs) /\ ~UnderTrust(kwargs))
                     => call'[p].result =
                           Raised(Exc("TrustNotFound", <<SuppliedTrustId(kwargs)>>))
               /\ ( /\ ~ActiveTrust(kwargs)
                    /\ FirstUnknown(kwargs.user_id, kwargs.domain_id,
                                    kwargs.project_id) # NoExc )
                     => call'[p].result =
                           Raised(FirstUnknown(kwargs.user_id, kwargs.domain_id,
                                               kwargs.project_id))
       /\ ( /\ last'.op = "validate_token"
            /\ last'.args.version = V3
            /\ store[last'.args.token_id] # NoneRef
            /\ IsLegacy(store[last'.args.token_id]) )
            => LET token_ref == store[last'.args.token_id]
                   unknown == FirstUnknown(token_ref.user.id, None, TenantId(token_ref))
               IN  unknown # NoExc => last'.result = Raised(unknown)]_vars

\* an id without a record has been revoked in vain
C10_Witness ==
    /\ last.op = "revoke_token"
    /\ store[last.args.token_id] = NoneRef
    /\ last.result = Raised(Exc("TokenNotFound", <<last.args.token_id>>))

\* a legacy record is being validated
ValidatingLegacy ==
    /\ last.op = "validate_token"
    /\ last.args.version = V3
    /\ store[last.args.token_id] # NoneRef
    /\ IsLegacy(store[last.args.token_id])
\* the payload of a fresh issuance without trust for a user and a project
FreshFor(user_id, project_id) ==
    get_token_data(user_id, <<"password">>, NoneRef, None, project_id, NoneRef,
                   NoneRef, NoneRef)
SameField(a, b, k) == Has(a, k) = Has(b, k) /\ (Has(a, k) => a[k] = b[k])

\* C11: validate_token of a legacy record returns a payload with methods
\* password and token, empty extras, the record's expiry, and the user,
\* project, roles and catalog that a fresh issuance without trust for the
\* record's user and tenant assembles from the directory as it is now; where
\* that issuance fails, the validation fails with the same exception.
C11_LegacyReconstruction ==
    ValidatingLegacy =>
        LET token_ref == store[last.args.token_id]
            fresh == FreshFor(token_ref.user.id, TenantId(token_ref))
        IN  IF Failed(fresh) THEN last.result = Raised(fresh.exc)
            ELSE /\ last.result.tag = "return"
                 /\ last.result.val.token.methods = <<"password", "token">>
                 /\ last.result.val.token.extras = EmptyDict
                 /\ last.result.val.token.expires_at.iso = token_ref.expires.dt
                 /\ \A k \in {"user", "project", "roles", "catalog"} :
                       SameField(last.result.val.token, fresh.ret.token, k)

\* a legacy record of a user with two roles on its tenant has been validated
C11_Witness ==
    /\ ValidatingLegacy
    /\ last.result.tag = "return"
    /\ Has(last.result.val.token, "project")
    /\ Len(last.result.val.token.roles) = 2

\* the record under a token id holds a structured payload
Structured(token_id) ==
    store[token_id] # NoneRef /\ ~IsLegacy(store[token_id])

\* C12: validate_token of a record that holds a structured payload returns the
\* stored payload after one look-up of the record and no call to a directory;
\* a step that leaves the store as it is, whatever it does to the directory,
\* leaves the outcome of validating any such record as it is.
C12_CachedPayload ==
    /\ [] ( ( /\ last.op = "validate_token"
              /\ last.args.version = V3
              /\ Structured(last.args.token_id) )
            => /\ last.result = Returned(store[last.args.token_id].token_data)
               /\ last.calls = <<<<"token_api.get_token", last.args.token_id>>>> )
    /\ [][\A t \in TokenIds :
            (store' = store /\ Structured(t))
            => validate_token(t, None, V3)' = validate_token(t, None, V3)]_vars

\* a token has been validated after a role it carries was withdrawn from the
\* user in the directory
C12_Witness ==
    /\ last.op = "validate_token"
    /\ Structured(last.args.token_id)
    /\ last.result = Returned(store[last.args.token_id].token_data)
    /\ req[1].kwargs.trust = NoneRef
    /\ PayloadRoleIds(last.result.val.token)
          # Assignments(req[1].kwargs.user_id, req[1].kwargs.project_id)

\* C13: validate_token of a token issued under a trust fails when, as it is
\* validated, the trustor is disabled or no longer holds a delegated role.
C13_TrustEnforcedAtValidation ==
    \A p \in DOMAIN call :
        ( /\ Succeeded(p)
          /\ ~call[p].revoked
          /\ call[p].trust # NoneRef
          /\ last.op = "validate_token"
          /\ last.args.version = V3
          /\ last.args.token_id = call[p].token_id
          /\ \/ ~identity.enabled[call[p].trust.trustor_user_id]
             \/ ~AllDelegatedHeld(call[p].trust) )
        => last.result.tag = "raise"

\* a payload's roles are absent or not empty
RolesOk(token_data) ==
    Has(token_data.token, "roles") => token_data.token.roles # <<>>
StoredAndValidatedRolesOk ==
    /\ \A t \in TokenIds : Structured(t) => RolesOk(store[t].token_data)
    /\ (last.op = "validate_token" /\ last.result.tag = "return")
          => RolesOk(last.result.val)

\* C14 as stated: every payload get_token_data returns, for any arguments and
\* any prior token, and every payload stored by issue_token or returned by
\* validate_token, has roles absent or not empty.
C14_RolesNeverEmptyAsStated ==
    /\ (last.op = "get_token_data" /\ last.result.tag = "return")
          => RolesOk(last.result.val)
    /\ StoredAndValidatedRolesOk

\* C14 amended: the same for the calls of get_token_data whose prior token, if
\* it carries roles, carries a list that is not empty.
C14_RolesNeverEmpty ==
    /\ ( /\ last.op = "get_token_data"
         /\ last.result.tag = "return"
         /\ ~(Has(last.args.token, "roles") /\ last.args.token.roles = <<>>) )
          => RolesOk(last.result.val)
    /\ StoredAndValidatedRolesOk

\* get_token_data, given a prior token, has denied a principal without roles
\* on the requested scope
C14_Witness ==
    /\ last.op = "get_token_data"
    /\ TruthyRef(last.args.token)
    /\ ~Has(last.args.token, "roles")
    /\ last.result.tag = "raise"
    /\ last.result.exc.type = "Unauthorized"

\* C15: a record of the store is never changed, only removed; _verify_token,
\* validate_token, check_token and get_token_data leave the store as it is;
\* a step of issue_token leaves every record that exists as it is, writes
\* under its own id only, and the call attempts one create at most;
\* revoke_token removes the record of its id and touches no other.
C15_RecordsImmutable ==
    [][/\ \A t \in TokenIds :
            store[t] # NoneRef => store'[t] \in {store[t], NoneRef}
       /\ last'.op \in {"_verify_token", "validate_token", "check_token",
                        "get_token_data"}
            => store' = store
       /\ last'.op = "issue_token"
            => /\ \A t \in TokenIds :
                    (store[t] # NoneRef \/ t # call'[last'.args.call].token_id)
                    => store'[t] = store[t]
               /\ Creates(call'[last'.args.call].calls) <= 1
       /\ last'.op = "revoke_token"
            => /\ \A t \in TokenIds \ {last'.args.token_id} : store'[t] = store[t]
               /\ store'[last'.args.token_id] = NoneRef]_vars

\* an issue_token call drew the id of a legacy record, was refused the write
\* and is done, and the legacy record is still there
C15_Witness ==
    \E p \in DOMAIN call :
        /\ call[p].pc = "done"
        /\ call[p].exc_info = Exc("Conflict", <<call[p].token_id>>)
        /\ store[call[p].token_id] # NoneRef
        /\ IsLegacy(store[call[p].token_id])

\* C16: a call of _verify_token, validate_token or check_token that is given
\* a project-ownership constraint belongs_to = P and succeeds was made on a
\* record whose tenant has the id P.
C16_BelongsToEnforced ==
    ( /\ last.op \in {"_verify_token", "validate_token", "check_token"}
      /\ TruthyId(last.args.belongs_to)
      /\ last.result.tag = "return" )
    => /\ store[last.args.token_id] # NoneRef
       /\ TenantId(store[last.args.token_id]) = last.args.belongs_to

\* the version an entry point of this provider serves
Served == {V3}
Unsupported(result) == result = Raised(UnsupportedTokenVersionException)

\* C17 as stated: issue_token, validate_token and check_token raise
\* UnsupportedTokenVersionException exactly when the version is neither v2.0
\* nor v3.0.
C17_UnsupportedIffUnrecognized ==
    /\ \A p \in DOMAIN call :
          call[p].pc = "done"
          => (Unsupported(call[p].result) <=> req[p].version \notin Recognized)
    /\ last.op \in {"validate_token", "check_token"}
          => (Unsupported(last.result) <=> last.args.version \notin Recognized)

\* C17: issue_token, validate_token and check_token raise
\* UnsupportedTokenVersionException exactly when the version is not v3.0; a
\* call with v2.0 is refused like one with an unknown version.
C17_UnsupportedIffNotV3 ==
    /\ \A p \in DOMAIN call :
          call[p].pc = "done"
          => (Unsupported(call[p].result) <=> req[p].version \notin Served)
    /\ last.op \in {"validate_token", "check_token"}
          => (Unsupported(last.result) <=> last.args.version \notin Served)

\* an issue_token call with v2.0 has been refused, a call with v3.0 is done,
\* and a check_token with v2.0 has been refused
C17_Witness ==
    /\ \E p \in DOMAIN call :
          req[p].version = V2 /\ call[p].pc = "done" /\ Unsupported(call[p].result)
    /\ \E p \in DOMAIN call :
          req[p].version = V3 /\ call[p].pc = "done" /\ ~Unsupported(call[p].result)
    /\ last.op = "check_token"
    /\ last.args.version = V2
    /\ Unsupported(last.result)

TrustorDisabled == Exc("Forbidden", <<"Trustor is disabled.">>)
\* C18: a call of get_token_data by the trustee of a trust in effect, for a
\* known scope, whose trustor is disabled, fails with Forbidden 'Trustor is
\* disabled.' whatever the prior token carries.
C18_DisabledTrustorRefused ==
    ( /\ GetTokenDataUnderTrust
      /\ last.args.user_id = last.args.trust.trustee_user_id
      /\ last.args.project_id \in Projects \cup {None}
      /\ last.args.domain_id \in Domains \cup {None}
      /\ ~identity.enabled[last.args.trust.trustor_user_id] )
    => last.result = Raised(TrustorDisabled)

RoleLookups == {"identity_api.get_roles_for_user_and_project",
                "identity_api.get_roles_for_user_and_domain"}
CatalogLookup == "catalog_api.get_v3_catalog"
Entries(calls) == {calls[i] : i \in 1..Len(calls)}
\* the role and catalog lookups of a trace are those of the trust: the roles
\* of the trustor on the trust's project, the catalog of the trustor
LookupsOfTrust(calls, trust) ==
    \A e \in Entries(calls) :
        /\ e[1] \in RoleLookups
              => e = <<"identity_api.get_roles_for_user_and_project",
                       trust.trustor_user_id, trust.project_id>>
        /\ e[1] = CatalogLookup => e[2] = trust.trustor_user_id

\* the catalog lookups of a trace
CatalogLookups(calls) == {e \in Entries(calls) : e[1] = CatalogLookup}
\* the same call of get_token_data made without a domain
WithoutDomain(args) ==
    get_token_data(args.user_id, <<"password">>, NoneRef, None, args.project_id,
                   NoneRef, args.trust, args.token)

\* C19 as stated: under a trust in effect the role lookup is the one for the
\* trustor on the trust's project, the catalog lookup is made for the
\* trustor, and the domain of the request has no part in them: the call made
\* without the domain makes the same catalog lookups.
C19_LookupsForTrustorAsStated ==
    GetTokenDataUnderTrust
    => /\ LookupsOfTrust(last.calls, last.args.trust)
       /\ last.result.tag = "return"
             => CatalogLookups(WithoutDomain(last.args).calls)
                  = CatalogLookups(last.calls)

\* C19: under a trust in effect, whatever its impersonation flag, every role
\* lookup of get_token_data and of issue_token is the one for the trustor on
\* the trust's project, none is made for a domain, and every catalog lookup
\* is made for the trustor; a get_token_data that returns, for a trust with
\* a project and a prior token without roles, has made that role lookup.
C19_LookupsForTrustor ==
    /\ GetTokenDataUnderTrust
          => /\ LookupsOfTrust(last.calls, last.args.trust)
             /\ ( /\ last.result.tag = "return"
                  /\ TruthyId(last.args.trust.project_id)
                  /\ ~(TruthyRef(last.args.token) /\ Has(last.args.token, "roles")) )
                => <<"identity_api.get_roles_for_user_and_project",
                     last.args.trust.trustor_user_id,
                     last.args.trust.project_id>> \in Entries(last.calls)
    /\ \A p \in DOMAIN call :
          (conf.trust_enabled /\ TruthyRef(call[p].trust))
          => LookupsOfTrust(call[p].calls, call[p].trust)

\* the trustee of a trust without impersonation asked for a token on another
\* project than the trust's, and for a domain; get_token_data returned after
\* a role lookup and a catalog lookup
C19_Witness ==
    /\ GetTokenDataUnderTrust
    /\ ~last.args.trust.impersonation
    /\ last.args.project_id = "p2"
    /\ last.args.domain_id = "d1"
    /\ last.result.tag = "return"
    /\ \E e \in Entries(last.calls) : e[1] \in RoleLookups
    /\ \E e \in Entries(last.calls) : e[1] = CatalogLookup

\* the record an issue_token call wrote, while it is in the store
Persisted(p) ==
    /\ call[p].pc = "done"
    /\ call[p].result.tag = "return"
    /\ ~call[p].revoked
    /\ Structured(call[p].token_id)
    /\ store[call[p].token_id].token_data = call[p].token_data
\* the entries the caller supplied as metadata_ref
SuppliedMetadata(kwargs) ==
    IF TruthyRef(Get(kwargs, "metadata_ref", EmptyDict)) THEN kwargs.metadata_ref
    ELSE EmptyDict

\* C20: in the record persisted by issue_token, metadata.roles is the list of
\* the payload's role ids when the payload has a project, metadata.trust_id
\* and metadata.trustee_user_id are present when a trust is in effect, and
\* every entry of the caller's metadata_ref is there with the caller's value.
C20_PersistedMetadata ==
    \A p \in DOMAIN call :
        Persisted(p) =>
            LET rec == store[call[p].token_id]
                token == rec.token_data.token
                supplied == SuppliedMetadata(req[p].kwargs)
            IN  /\ Has(token, "project")
                      => /\ Has(rec.metadata, "roles")
                         /\ rec.metadata.roles
                               = [i \in 1..Len(token.roles) |-> token.roles[i].id]
                /\ (conf.trust_enabled /\ TruthyRef(call[p].trust))
                      => /\ Has(rec.metadata, "trust_id")
                         /\ Has(rec.metadata, "trustee_user_id")
                /\ \A k \in DOMAIN supplied :
                      Has(rec.metadata, k) /\ rec.metadata[k] = supplied[k]

\* the same call of get_token_data made again with a prior token
Again(args, token) ==
    get_token_data(args.user_id, <<"password">>, NoneRef, args.domain_id,
                   args.project_id, NoneRef, args.trust, token)
AssembledFields == {"domain", "project", "user", "roles", "catalog", "OS-TRUST:trust"}
\* the lookups a step makes for its field
LookupsFor(k) ==
    CASE k = "user" -> {"identity_api.get_user"}
      [] k = "roles" -> RoleLookups \cup {"identity_api.get_role"}
      [] k = "catalog" -> {CatalogLookup}
      [] OTHER -> {"identity_api.get_project"}

\* C21: get_token_data called again with the same arguments and the token of
\* a successful first call as prior token returns a payload with the same
\* domain, project, user, roles, catalog and trust block, and makes no lookup
\* for a field the prior token carries.
C21_Idempotent ==
    ( /\ last.op = "get_token_data"
      /\ last.args.token = NoneRef
      /\ last.result.tag = "return" )
    => LET first == last.result.val.token
           again == Again(last.args, first)
       IN  /\ ~Failed(again)
           /\ \A k \in AssembledFields : SameField(again.ret.token, first, k)
           /\ \A k \in {"user", "roles", "catalog", "project"} :
                 Has(first, k)
                 => \A e \in Entries(again.calls) : e[1] \notin LookupsFor(k)

\* a scope is requested of get_token_data
ScopeRequested(args) == TruthyId(args.project_id) \/ TruthyId(args.domain_id)
\* the catalog the directory holds for the principal of a call, the empty
\* mapping when the backend does not implement the lookup
ExpectedCatalog(args) ==
    IF ~conf.catalog_v3 THEN EmptyDict
    ELSE [RegionOne |->
            [identity |->
               [user_id |-> IF conf.trust_enabled /\ TruthyRef(args.trust)
                            THEN args.trust.trustor_user_id ELSE args.user_id,
                tenant_id |-> args.project_id]]]
CarriesCatalog(token) == TruthyRef(token) /\ Has(token, "catalog")

\* C22 as stated: every payload returned by get_token_data has a catalog:
\* the directory's when a scope is requested, the empty mapping when the
\* backend does not implement the lookup or no scope is requested; the
\* backend's NotImplemented is never raised.
C22_CatalogAlwaysPresent ==
    last.op = "get_token_data"
    => /\ last.result.tag = "raise" => last.result.exc.type # "NotImplemented"
       /\ last.result.tag = "return"
             => /\ Has(last.result.val.token, "catalog")
                /\ last.result.val.token.catalog
                      = IF ScopeRequested(last.args) THEN ExpectedCatalog(last.args)
                        ELSE EmptyDict

\* C22: a payload returned by get_token_data for a prior token without a
\* catalog has the directory's catalog when a scope is requested, the empty
\* mapping in its place when the backend does not implement the lookup, and
\* no catalog field when no scope is requested; the backend's NotImplemented
\* is never raised.
C22_CatalogWhenScoped ==
    last.op = "get_token_data"
    => /\ last.result.tag = "raise" => last.result.exc.type # "NotImplemented"
       /\ (last.result.tag = "return" /\ ~CarriesCatalog(last.args.token))
             => IF ScopeRequested(last.args)
                THEN /\ Has(last.result.val.token, "catalog")
                     /\ last.result.val.token.catalog = ExpectedCatalog(last.args)
                ELSE ~Has(last.result.val.token, "catalog")

\* get_token_data returned a payload with an empty catalog for a scoped
\* request while the backend does not implement the lookup
C22_Witness ==
    /\ last.op = "get_token_data"
    /\ ~conf.catalog_v3
    /\ ScopeRequested(last.args)
    /\ ~CarriesCatalog(last.args.token)
    /\ last.result.tag = "return"
    /\ last.result.val.token.catalog = EmptyDict
    /\ <<CatalogLookup, last.args.user_id, last.args.project_id>> \in Entries(last.calls)

\* the failures of the store's create
WriteFailures == {"Conflict", "StoreUnavailable"}
\* an issue_token call has failed, and not because its write failed
FailedBeforeWrite(cl) ==
    /\ cl.pc = "done"
    /\ cl.result.tag = "raise"
    /\ cl.exc_info.type \notin WriteFailures

\* C23: an issue_token call attempts one create at most; a call that fails
\* while assembling the payload or deriving the record has attempted none;
\* and a step of issue_token changes the store only by the successful write
\* of the whole payload under the call's id, with which the call returns.
C23_NoPartialNoRetry ==
    [][/\ \A p \in DOMAIN call :
            /\ Creates(call'[p].calls) <= 1
            /\ FailedBeforeWrite(call'[p]) => NoCreate(call'[p].calls)
       /\ (last'.op = "issue_token" /\ store' # store)
            => LET cl == call'[last'.args.call]
               IN  /\ call[last'.args.call].pc = "create"
                   /\ cl.pc = "done"
                   /\ cl.result = Returned([token_id |-> cl.token_id,
                                            token_data |-> cl.token_data])
                   /\ store'[cl.token_id].token_data = cl.token_data
                   /\ \A t \in TokenIds \ {cl.token_id} : store'[t] = store[t]]_vars

\* an issue_token call under a trust failed while deriving the metadata of
\* its record: it attempted no write and nothing is stored under its id
C23_Witness ==
    \E p \in DOMAIN call :
        /\ call[p].pc = "done"
        /\ call[p].result = Raised(Exc("AttributeError", <<"setdefault">>))
        /\ TruthyRef(call[p].trust)
        /\ NoCreate(call[p].calls)
        /\ store[call[p].token_id] = NoneRef

\* the project for which the role and catalog lookups of a trace were made
ResolvedFor(calls, project_id) ==
    \A e \in Entries(calls) :
        e[1] \in {"identity_api.get_roles_for_user_and_project", CatalogLookup}
        => e[3] = project_id

\* C24: in every payload assembled by issue_token roles is present exactly
\* when project or domain is; when project is present the role and catalog
\* lookups were made for that project; and issue_token never fails with a
\* KeyError while deriving the record.
C24_ScopeRolesConsistent ==
    \A p \in DOMAIN call :
        /\ call[p].token_data # NoneRef
              => LET token == call[p].token_data.token
                 IN  /\ Has(token, "roles")
                           <=> (Has(token, "project") \/ Has(token, "domain"))
                     /\ Has(token, "project")
                           => ResolvedFor(call[p].calls, token.project.id)
        /\ call[p].exc_info.type # "KeyError"

\* the payload says it was issued under the trust with this id to this trustee
TrustBlockFor(token, trust_id, user_id) ==
    /\ Has(token, "OS-TRUST:trust")
    /\ token["OS-TRUST:trust"].id = trust_id
    /\ token["OS-TRUST:trust"].trustee_user.id = user_id

\* C25: under either value of the trust configuration flag, a record
\* persisted by issue_token has a trust_id, and a metadata trust_id, exactly
\* when its payload has the trust block of that trust with the caller as
\* trustee.
C25_TrustMarkMatchesPayload ==
    \A p \in DOMAIN call :
        Persisted(p) =>
            LET rec == store[call[p].token_id]
                marked == rec.trust_id # None
            IN  /\ marked <=> TrustBlockFor(rec.token_data.token, rec.trust_id,
                                            req[p].kwargs.user_id)
                /\ marked <=> (TruthyRef(rec.metadata) /\ Has(rec.metadata, "trust_id"))

\* the call wrote its record itself and the record has not been revoked
Wrote(p) ==
    /\ Succeeded(p)
    /\ call[p].exc_info = NoExc
    /\ ~call[p].revoked

\* C26: the record an issue_token call wrote is stored under the returned
\* id, which is its key and its id; its token_data is the returned payload,
\* its user the payload's user, its tenant the payload's project or None,
\* and its expires the instant of the payload's expires_at.
C26_RecordProjectsPayload ==
    \A p \in DOMAIN call :
        Wrote(p) =>
            LET returned == call[p].result.val
                rec == store[returned.token_id]
                token == returned.token_data.token
            IN  /\ rec # NoneRef
                /\ rec.key = returned.token_id
                /\ rec.id = returned.token_id
                /\ rec.token_data = returned.token_data
                /\ rec.user = token.user
                /\ rec.tenant = Get(token, "project", NoneRef)
                /\ rec.expires.dt = token.expires_at.iso

\* a call for a project with an expiry given as a string without subseconds
\* wrote its record
C26_Witness ==
    \E p \in DOMAIN call :
        /\ Wrote(p)
        /\ req[p].kwargs.expires_at = [iso |-> 3, subsecond |-> FALSE]
        /\ store[call[p].token_id].tenant # NoneRef
        /\ store[call[p].token_id].expires = [dt |-> 3]

SetOf(seq) == {seq[i] : i \in 1..Len(seq)}

\* C27: validate_token of a legacy record whose metadata carries a trust_id
\* returns a payload whose roles are among the roles the trust delegates and
\* that carries the trust block of that trust.
C27_LegacyTrustBounded ==
    ( /\ ValidatingLegacy
      /\ Has(store[last.args.token_id].metadata, "trust_id")
      /\ last.result.tag = "return" )
    => LET trust == TrustRef(store[last.args.token_id].metadata.trust_id)
           token == last.result.val.token
       IN  /\ SetOf(PayloadRoleIds(token)) \subseteq SetOf(DeclaredIds(trust))
           /\ Has(token, "OS-TRUST:trust")
           /\ token["OS-TRUST:trust"].id = trust.id

====
